---- MODULE Spec2Model ----
(***************************************************************************)
(* Xbox controller to keyboard/mouse simulator (simulator.c, keymapping.h) *)
(* as a state machine: the GIP handshake, the steady-state input loop, the *)
(* translation of input frames into key / pointer events, and the release  *)
(* pass of main.                                                           *)
(*                                                                         *)
(* Events handed to the sink are the calls of send_key_event,              *)
(* send_mouse_button_event and send_mouse_movement; `emitted' holds the    *)
(* calls made by the last step, in order.                                  *)
(*                                                                         *)
(* Floating point: apply_deadzone is modelled in IEEE-754 single precision *)
(* (every operation rounded to nearest-even, no contraction).  Pointer     *)
(* deltas are kept as exact rationals over a fixed denominator.            *)
(***************************************************************************)
EXTENDS Integers, Naturals, Sequences, FiniteSets, TLC

VARIABLES
    config,         \* ControllerMapping, fixed for the run
    running,        \* static int running
    input_state,    \* static InputState input_state
    pc,             \* position of main
    attempt,        \* initialize_controller: loop counter
    result,         \* result of the last read of the function in progress
    usb,            \* USB transfers made by the last step, in order
    emitted,        \* sink events made by the last step, in order
    last_pressed,   \* keycodes / buttons whose last sink event was a press
    last_frame,     \* the last Input frame input_loop accepted
    step,           \* the last read of input_loop: state before it, frame
    hs_read_failed, \* a handshake read has failed with a non-timeout error
    hs,             \* initialize_controller: its reads, Acknowledge writes
                    \* and failed writes, kept until input_loop is entered
    init_return,    \* what initialize_controller returned to main: <<>>
                    \* until it returns, then its return value
    power_writes,   \* power-on frames written so far
    exit_cause      \* why input_loop returned

vars == <<config, running, input_state, pc, attempt, result, usb, emitted,
          last_pressed, last_frame, step, hs_read_failed, hs, init_return,
          power_writes, exit_cause>>

(***************************************************************************)
(* Bounds of the model.                                                    *)
(***************************************************************************)
\* Mapping configurations 1..NumConfigs of MappingTable are explored.
NumConfigs == 6
\* Frames press buttons among the first NumButtons of the enumeration order
\* (plus the last one, D-pad Right) in any combination.
NumButtons == 2

(***************************************************************************)
(* Program constants.                                                      *)
(***************************************************************************)
MaxAttempts == 5
NumButtonSlots == 14
KeyTableSize == 256
AxisMax == 32767
MouseBaseSpeed == 15

kCGMouseButtonLeft == 0
kCGMouseButtonRight == 1
kCGMouseButtonCenter == 2

\* gip.h: sizes of GipHeader and GipInputPacket (wire layout of the spec:
\* 4 header bytes, 2 button bytes, 2 trigger bytes, 4 sticks of 2 bytes).
GipHeaderSize == 4
GipInputPacketSize == 16
UsbBufferSize == 64

\* gip.h: command bytes, kept symbolic.
GIP_CMD_ACKNOWLEDGE == "Acknowledge"
GIP_CMD_ANNOUNCE == "Announce"
GIP_CMD_POWER == "Power"
GIP_CMD_INPUT == "Input"
GIP_CMD_GUIDE_BUTTON == "GuideButton"
GIP_CMD_OTHER == "Other"
GipCommands == {GIP_CMD_ACKNOWLEDGE, GIP_CMD_ANNOUNCE, GIP_CMD_POWER,
                GIP_CMD_INPUT, GIP_CMD_GUIDE_BUTTON, GIP_CMD_OTHER}

\* libusb transfer results.
LIBUSB_SUCCESS == "success"
LIBUSB_ERROR_TIMEOUT == "timeout"
LIBUSB_ERROR_NO_DEVICE == "no_device"
LIBUSB_ERROR_IO == "io"
UsbReadResults == {LIBUSB_SUCCESS, LIBUSB_ERROR_TIMEOUT,
                   LIBUSB_ERROR_NO_DEVICE, LIBUSB_ERROR_IO}
UsbWriteResults == {LIBUSB_SUCCESS, LIBUSB_ERROR_IO}

STICK_MODE_WASD == "WASD"
STICK_MODE_ARROWS == "ARROWS"
STICK_MODE_MOUSE == "MOUSE"
STICK_MODE_DISABLED == "DISABLED"
StickModes == <<STICK_MODE_WASD, STICK_MODE_ARROWS, STICK_MODE_MOUSE,
                STICK_MODE_DISABLED>>

TRIGGER_MODE_MOUSE == "MOUSE"
TRIGGER_MODE_KEY == "KEY"
TRIGGER_MODE_DISABLED == "DISABLED"
TriggerModes == <<TRIGGER_MODE_MOUSE, TRIGGER_MODE_KEY, TRIGGER_MODE_DISABLED>>

RECURSIVE Pow(_, _)
Pow(b, e) == IF e = 0 THEN 1 ELSE b * Pow(b, e - 1)

\* gip.h: XBOX_BTN_* of the i-th button of the enumeration order A, B, X, Y,
\* LB, RB, LS, RS, View, Menu, D-pad Up, Down, Left, Right (A is 0x0001).
XBOX_BTN(i) == Pow(2, i - 1)

\* The element of a one-element set.  TLC evaluates an operator argument or
\* LET definition anew at every use; binding a computed state as the
\* element of a singleton evaluates it once.
The(S) == CHOOSE r \in S : TRUE

\* (value & mask) != 0 for a single-bit mask
TestMask(value, mask) == (value \div mask) % 2 = 1

(***************************************************************************)
(* Mapping configuration (keymapping.h).  Floats are kept in tenths:       *)
(* mouse_sensitivity 15 is 1.5.  The response curve exponent mouse_curve   *)
(* is an integer; the tables below use the linear curve 1 (the shipped     *)
(* 1.8 has no exact integer model).                                        *)
(***************************************************************************)
get_default_mapping ==
    [buttons |-> [key_a |-> 49, key_b |-> 8, key_x |-> 15, key_y |-> 3,
                  key_lb |-> 12, key_rb |-> 14, key_ls |-> 56, key_rs |-> 59,
                  key_view |-> 48, key_menu |-> 53,
                  key_dpad_up |-> 126, key_dpad_down |-> 125,
                  key_dpad_left |-> 123, key_dpad_right |-> 124],
     sticks |-> [left_stick_mode |-> STICK_MODE_WASD,
                 left_up |-> 13, left_down |-> 1, left_left |-> 0, left_right |-> 2,
                 right_stick_mode |-> STICK_MODE_MOUSE,
                 right_up |-> 34, right_down |-> 40, right_left |-> 38, right_right |-> 37,
                 mouse_sensitivity |-> 15, mouse_curve |-> 1, mouse_smoothing |-> 3,
                 deadzone |-> 8000],
     triggers |-> [left_trigger_mode |-> TRIGGER_MODE_MOUSE,
                   right_trigger_mode |-> TRIGGER_MODE_MOUSE,
                   left_trigger_key |-> 6, right_trigger_key |-> 7,
                   threshold |-> 127],
     console_output_enabled |-> TRUE,
     streaming_mode |-> FALSE]

\* The user-edited variants of the mapping that the model explores: every
\* stick mode and trigger mode occurs, alone and combined, and keycodes are
\* shared between buttons, sticks and triggers.
MappingTable(i) ==
    LET d == get_default_mapping IN
    CASE i = 1 -> d
      [] i = 2 -> [d EXCEPT !.sticks.left_stick_mode = STICK_MODE_ARROWS,
                            !.sticks.right_stick_mode = STICK_MODE_WASD,
                            !.triggers.left_trigger_mode = TRIGGER_MODE_KEY,
                            !.triggers.right_trigger_mode = TRIGGER_MODE_KEY]
      [] i = 3 -> [d EXCEPT !.sticks.left_stick_mode = STICK_MODE_MOUSE,
                            !.sticks.deadzone = 16000,
                            !.triggers.left_trigger_mode = TRIGGER_MODE_DISABLED,
                            !.triggers.right_trigger_mode = TRIGGER_MODE_KEY,
                            !.streaming_mode = TRUE]
      [] i = 4 -> [d EXCEPT !.buttons.key_b = d.buttons.key_a,
                            !.sticks.right_stick_mode = STICK_MODE_WASD,
                            !.triggers.left_trigger_mode = TRIGGER_MODE_KEY,
                            !.triggers.left_trigger_key = d.buttons.key_a]
      [] i = 5 -> [d EXCEPT !.sticks.left_stick_mode = STICK_MODE_DISABLED,
                            !.sticks.right_stick_mode = STICK_MODE_ARROWS,
                            !.sticks.deadzone = 16000,
                            !.triggers.right_trigger_mode = TRIGGER_MODE_DISABLED]
      [] i = 6 -> [d EXCEPT !.sticks.left_up = d.buttons.key_a,
                            !.sticks.right_stick_mode = STICK_MODE_DISABLED,
                            !.triggers.left_trigger_mode = TRIGGER_MODE_KEY,
                            !.triggers.right_trigger_mode = TRIGGER_MODE_KEY,
                            !.triggers.right_trigger_key = d.triggers.left_trigger_key]
      [] i = 7 -> [d EXCEPT !.sticks.left_stick_mode = STICK_MODE_ARROWS,
                            !.sticks.right_stick_mode = STICK_MODE_ARROWS,
                            !.triggers.left_trigger_mode = TRIGGER_MODE_DISABLED,
                            !.triggers.right_trigger_mode = TRIGGER_MODE_DISABLED,
                            !.triggers.threshold = 64]
      [] OTHER -> [d EXCEPT !.console_output_enabled = FALSE]

Configs == {MappingTable(i) : i \in 1..NumConfigs}

(***************************************************************************)
(* Event sink.  A working state w pairs the InputState st with the events  *)
(* out emitted so far by the handler in progress.                          *)
(***************************************************************************)
KeyEvent(keycode, pressed) ==
    [kind |-> "key", code |-> keycode, pressed |-> pressed, dx |-> 0, dy |-> 0]
MouseButtonEvent(button, pressed) ==
    [kind |-> "button", code |-> button, pressed |-> pressed, dx |-> 0, dy |-> 0]
MouseMoveEvent(dx, dy) ==
    [kind |-> "move", code |-> 0, pressed |-> FALSE, dx |-> dx, dy |-> dy]

send_key_event(w, keycode, pressed) ==
    [w EXCEPT !.out = Append(@, KeyEvent(keycode, pressed))]

send_mouse_button_event(w, button, pressed) ==
    IF button \in {kCGMouseButtonLeft, kCGMouseButtonRight, kCGMouseButtonCenter}
    THEN [w EXCEPT !.out = Append(@, MouseButtonEvent(button, pressed))]
    ELSE w

send_mouse_movement(w, dx, dy) ==
    IF dx = 0 /\ dy = 0 THEN w
    ELSE [w EXCEPT !.out = Append(@, MouseMoveEvent(dx, dy))]

\* A variant of the hold table's update that records nothing.
SetKey_Ignored(w, keycode, pressed) == w

\* input_state.keys[keycode] = pressed; keys is the set of keycodes whose
\* entry of the bool[256] table is true.
SetKey(w, keycode, pressed) ==
    [w EXCEPT !.st.keys = IF pressed THEN @ \cup {keycode} ELSE @ \ {keycode}]

\* static InputState input_state = {0}
InitialInputState ==
    [keys |-> {}, mouse_left |-> FALSE, mouse_right |-> FALSE,
     mouse_middle |-> FALSE,
     prev_buttons |-> 0, prev_left_trigger |-> 0, prev_right_trigger |-> 0,
     prev_left_stick_x |-> 0, prev_left_stick_y |-> 0,
     prev_right_stick_x |-> 0, prev_right_stick_y |-> 0,
     mouse_dx |-> 0, mouse_dy |-> 0]

(***************************************************************************)
(* process_buttons                                                         *)
(***************************************************************************)
button_map ==
    LET b == config.buttons IN
    << [mask |-> XBOX_BTN(1), keycode |-> b.key_a],
       [mask |-> XBOX_BTN(2), keycode |-> b.key_b],
       [mask |-> XBOX_BTN(3), keycode |-> b.key_x],
       [mask |-> XBOX_BTN(4), keycode |-> b.key_y],
       [mask |-> XBOX_BTN(5), keycode |-> b.key_lb],
       [mask |-> XBOX_BTN(6), keycode |-> b.key_rb],
       [mask |-> XBOX_BTN(7), keycode |-> b.key_ls],
       [mask |-> XBOX_BTN(8), keycode |-> b.key_rs],
       [mask |-> XBOX_BTN(9), keycode |-> b.key_view],
       [mask |-> XBOX_BTN(10), keycode |-> b.key_menu],
       [mask |-> XBOX_BTN(11), keycode |-> b.key_dpad_up],
       [mask |-> XBOX_BTN(12), keycode |-> b.key_dpad_down],
       [mask |-> XBOX_BTN(13), keycode |-> b.key_dpad_left],
       [mask |-> XBOX_BTN(14), keycode |-> b.key_dpad_right] >>

\* A variant that decides a button's transition against the hold table.
ButtonWasPressed_FromHoldTable(w, slot) == slot.keycode \in w.st.keys

\* The previous state a button's transition is decided against.
ButtonWasPressed(w, slot) == TestMask(w.st.prev_buttons, slot.mask)

\* One iteration of the loop over button_map, at the entry `slot'.
ButtonStep(w, buttons, slot) ==
    LET is_pressed == TestMask(buttons, slot.mask)
        was_pressed == ButtonWasPressed(w, slot)
    IN  IF is_pressed # was_pressed
        THEN SetKey(send_key_event(w, slot.keycode, is_pressed),
                    slot.keycode, is_pressed)
        ELSE w

\* A variant of the loop that walks the table from its last entry to its
\* first.
RECURSIVE ButtonLoop_Descending(_, _, _, _)
ButtonLoop_Descending(w, buttons, map, i) ==
    IF i > NumButtonSlots THEN w
    ELSE The({ButtonLoop_Descending(w1, buttons, map, i + 1) :
                 w1 \in {ButtonStep(w, buttons, map[NumButtonSlots + 1 - i])}})

\* The loop over the table `map' from its i-th entry on
RECURSIVE ButtonLoop(_, _, _, _)
ButtonLoop(w, buttons, map, i) ==
    IF i > NumButtonSlots THEN w
    ELSE The({ButtonLoop(w1, buttons, map, i + 1) :
                 w1 \in {ButtonStep(w, buttons, map[i])}})

process_buttons(w, buttons) ==
    The({[w1 EXCEPT !.st.prev_buttons = buttons] :
            w1 \in {ButtonLoop(w, buttons, map, 1) : map \in {button_map}}})

(***************************************************************************)
(* process_triggers                                                        *)
(***************************************************************************)
\* A variant of the comparison that counts the threshold itself as pressed.
TriggerPressed_AtThreshold(value) == value >= config.triggers.threshold

TriggerPressed(value) == value > config.triggers.threshold

\* A variant of the dispatch that treats every mode as TRIGGER_MODE_KEY.
TriggerEmit_AlwaysKey(w, mode, button, keycode, pressed) ==
    SetKey(send_key_event(w, keycode, pressed), keycode, pressed)

\* A variant of the dispatch that sends the pointer-button event without
\* storing the hold flag.
TriggerEmit_FlagNotStored(w, mode, button, keycode, pressed) ==
    IF mode = TRIGGER_MODE_MOUSE
    THEN send_mouse_button_event(w, button, pressed)
    ELSE IF mode = TRIGGER_MODE_KEY
    THEN SetKey(send_key_event(w, keycode, pressed), keycode, pressed)
    ELSE w

TriggerEmit(w, mode, button, keycode, pressed) ==
    IF mode = TRIGGER_MODE_MOUSE
    THEN LET w1 == send_mouse_button_event(w, button, pressed)
         IN  IF button = kCGMouseButtonRight
             THEN [w1 EXCEPT !.st.mouse_right = pressed]
             ELSE [w1 EXCEPT !.st.mouse_left = pressed]
    ELSE IF mode = TRIGGER_MODE_KEY
    THEN SetKey(send_key_event(w, keycode, pressed), keycode, pressed)
    ELSE w

\* The right trigger's half of process_triggers, driven by the wire's
\* left_trigger byte.
RightTriggerStep(w, left_trigger) ==
    LET t == config.triggers
        right_pressed == TriggerPressed(left_trigger)
        right_was_pressed == TriggerPressed(w.st.prev_right_trigger)
    IN  IF right_pressed # right_was_pressed
        THEN TriggerEmit(w, t.right_trigger_mode, kCGMouseButtonRight,
                         t.right_trigger_key, right_pressed)
        ELSE w

\* The left trigger's half, driven by the wire's right_trigger byte.
LeftTriggerStep(w, right_trigger) ==
    LET t == config.triggers
        left_pressed == TriggerPressed(right_trigger)
        left_was_pressed == TriggerPressed(w.st.prev_left_trigger)
    IN  IF left_pressed # left_was_pressed
        THEN TriggerEmit(w, t.left_trigger_mode, kCGMouseButtonLeft,
                         t.left_trigger_key, left_pressed)
        ELSE w

\* A variant in which each wire byte drives the trigger of its own name.
process_triggers_Unswapped(w, left_trigger, right_trigger) ==
    The({[w2 EXCEPT !.st.prev_left_trigger = left_trigger,
                    !.st.prev_right_trigger = right_trigger] :
            w2 \in {LeftTriggerStep(w1, left_trigger) :
                       w1 \in {RightTriggerStep(w, right_trigger)}}})

process_triggers(w, left_trigger, right_trigger) ==
    The({[w2 EXCEPT !.st.prev_left_trigger = right_trigger,
                    !.st.prev_right_trigger = left_trigger] :
            w2 \in {LeftTriggerStep(w1, right_trigger) :
                       w1 \in {RightTriggerStep(w, left_trigger)}}})

(***************************************************************************)
(* IEEE-754 single precision on integers below 2^31: an integer n is a     *)
(* float when it is a multiple of FloatUlp(n).                             *)
(***************************************************************************)
Abs(n) == IF n < 0 THEN -n ELSE n

RECURSIVE FloorLog2(_)
FloorLog2(n) == IF n < 2 THEN 0 ELSE 1 + FloorLog2(n \div 2)

RECURSIVE UlpFrom(_, _)
UlpFrom(n, u) == IF n \div u < Pow(2, 24) THEN u ELSE UlpFrom(n, 2 * u)

\* spacing of the floats around n
FloatUlp(n) == UlpFrom(n, 1)

\* (float)n: round to nearest, ties to even
RoundToFloat(n) ==
    LET u == FloatUlp(n)
        q == n \div u
        r == n % u
    IN  IF 2 * r < u THEN q * u
        ELSE IF 2 * r > u THEN (q + 1) * u
        ELSE IF q % 2 = 0 THEN q * u ELSE (q + 1) * u

\* (float)x * x + (float)y * y, for |x|, |y| not both 32768
SumOfSquares(x, y) == RoundToFloat(RoundToFloat(x * x) + RoundToFloat(y * y))

\* sqrtf(s) < deadzone: sqrtf rounds to the float nearest the root, so the
\* test holds iff the root lies below the midpoint of deadzone and the
\* float before it, deadzone - h with h = 1 / (2 * P).
MagnitudeBelow(s, deadzone) ==
    IF deadzone <= 0 THEN FALSE
    ELSE LET k == FloorLog2(deadzone)
             P == IF Pow(2, k) = deadzone THEN Pow(2, 24 - k) ELSE Pow(2, 23 - k)
         IN  s <= deadzone * deadzone - (deadzone \div P)
                  - (IF deadzone % P = 0 THEN 0 ELSE 1)

\* sqrtf(s) > 32767: the root lies above 32767 + 2^-10
MagnitudeAboveMax(s) == s >= AxisMax * AxisMax + 64

RECURSIVE ISqrtFrom(_, _, _)
ISqrtFrom(s, lo, hi) ==
    IF hi - lo <= 1 THEN lo
    ELSE LET mid == (lo + hi) \div 2
         IN  IF mid * mid <= s THEN ISqrtFrom(s, mid, hi) ELSE ISqrtFrom(s, lo, mid)

ISqrt(s) == ISqrtFrom(s, 0, 46341)

\* The largest c in lo..hi-1 with (2 * U * a + c)^2 <= (2 * U)^2 * (a^2 + d),
\* by bisection; lo satisfies it.
RECURSIVE HalfStepsFrom(_, _, _, _, _)
HalfStepsFrom(a, d, U, lo, hi) ==
    IF hi - lo <= 1 THEN lo
    ELSE LET c == (lo + hi) \div 2
         IN  IF a * c + ((c * c + 4 * U - 1) \div (4 * U)) <= U * d
             THEN HalfStepsFrom(a, d, U, c, hi)
             ELSE HalfStepsFrom(a, d, U, lo, c)

\* sqrtf(s) for a root above 32767, as <<M, U>> with sqrtf(s) = M / U:
\* U = 512 below 2^15 and 256 from there on.
Magnitude(s) ==
    LET a == ISqrt(s)
        U == IF a >= 32768 THEN 256 ELSE 512
        b == HalfStepsFrom(a, s - a * a, U, 0, 2 * U)
    IN  <<U * a + ((b + 1) \div 2), U>>

\* sqrtf of 2^31, the sum of squares of (-32768, -32768)
MagnitudeOfCorner == <<11863283, 256>>

RECURSIVE LongDiv(_, _, _, _)
LongDiv(q, r, M, steps) ==
    IF steps = 0 THEN <<q, r>>
    ELSE LongDiv(q * 16 + ((r * 16) \div M), (r * 16) % M, M, steps - 1)

\* scale = 32767.0f / magnitude, as the integer scale * 2^24
Scale(mag) ==
    LET M == mag[1]
        qr == LongDiv(0, AxisMax * mag[2], M, 6)
        q == qr[1]
        r == qr[2]
    IN  IF 2 * r > M \/ (2 * r = M /\ q % 2 = 1) THEN q + 1 ELSE q

\* (int16_t)(a * scale) for a >= 0: the product rounded to a float, then
\* truncated
ScaleAxisAbs(a, Sc) ==
    IF a = 0 THEN 0
    ELSE LET A == a * (Sc \div 4096)
             B == a * (Sc % 4096)
             T == A + (B \div 4096)
             ip == T \div 4096
             frac == (T % 4096) * 4096 + (B % 4096)
         IN  IF ip = 0
             THEN (IF 2 * frac >= Pow(2, 25) - 1 THEN 1 ELSE 0)
             ELSE IF frac >= Pow(2, 24) - Pow(2, FloorLog2(ip)) THEN ip + 1 ELSE ip

ScaleAxis(v, Sc) == IF v < 0 THEN -ScaleAxisAbs(-v, Sc) ELSE ScaleAxisAbs(v, Sc)

(***************************************************************************)
(* apply_deadzone: the pair <<x, y>> after the call                        *)
(***************************************************************************)
apply_deadzone(x, y, deadzone) ==
    IF Abs(x) = 32768 /\ Abs(y) = 32768
    THEN The({<<ScaleAxis(x, Sc), ScaleAxis(y, Sc)>> :
                 Sc \in {Scale(MagnitudeOfCorner)}})
    ELSE LET s == SumOfSquares(x, y)
         IN  IF MagnitudeBelow(s, deadzone) THEN <<0, 0>>
             ELSE IF MagnitudeAboveMax(s)
             THEN The({<<ScaleAxis(x, Sc), ScaleAxis(y, Sc)>> :
                          Sc \in {Scale(Magnitude(s))}})
             ELSE <<x, y>>

(***************************************************************************)
(* Sticks                                                                  *)
(***************************************************************************)
\* v / 32767.0f > 0.3f  and  v / 32767.0f < -0.3f
AboveThreshold(v) == 10 * v > 3 * AxisMax
BelowThreshold(v) == 10 * v < -(3 * AxisMax)

\* A variant that emits a direction's state whatever the hold table says.
DirectionKey_Unconditional(w, key, active) ==
    SetKey(send_key_event(w, key, active), key, active)

\* if (active != input_state.keys[key]) { send_key_event; keys[key] = active }
DirectionKey(w, key, active) ==
    IF active # (key \in w.st.keys)
    THEN SetKey(send_key_event(w, key, active), key, active)
    ELSE w

\* A variant that takes the wire's X for the horizontal axis and its Y for
\* the vertical one.
process_stick_as_keys_Unswapped(w, x0, y0, key_up, key_down, key_left, key_right) ==
    LET up == AboveThreshold(y0)
        down == BelowThreshold(y0)
        left == BelowThreshold(x0)
        right == AboveThreshold(x0)
    IN  The({DirectionKey(w3, key_right, right) :
                w3 \in {DirectionKey(w2, key_left, left) :
                    w2 \in {DirectionKey(w1, key_down, down) :
                        w1 \in {DirectionKey(w, key_up, up)}}}})

process_stick_as_keys(w, x0, y0, key_up, key_down, key_left, key_right) ==
    LET x == y0
        y == x0
        up == AboveThreshold(y)
        down == BelowThreshold(y)
        left == BelowThreshold(x)
        right == AboveThreshold(x)
    IN  The({DirectionKey(w3, key_right, right) :
                w3 \in {DirectionKey(w2, key_left, left) :
                    w2 \in {DirectionKey(w1, key_down, down) :
                        w1 \in {DirectionKey(w, key_up, up)}}}})

\* sign * powf(fabsf(norm), mouse_curve) * mouse_sensitivity * 15.0f for
\* norm = n / 32767, as a numerator over 10 * 32767^mouse_curve
CurvedDelta(n) ==
    LET sign == IF n >= 0 THEN 1 ELSE -1
    IN  sign * Pow(Abs(n), config.sticks.mouse_curve)
             * config.sticks.mouse_sensitivity * MouseBaseSpeed

process_stick_as_mouse(w, x0, y0) ==
    LET x == y0
        y == x0
        dx == CurvedDelta(x)
        dy == CurvedDelta(-y)
    IN  [w EXCEPT !.st.mouse_dx = @ + dx, !.st.mouse_dy = @ + dy]

\* One stick's switch over its mode.
StickDispatch(w, mode, x, y, key_up, key_down, key_left, key_right) ==
    CASE mode = STICK_MODE_WASD ->
            process_stick_as_keys(w, x, y, key_up, key_down, key_left, key_right)
      [] mode = STICK_MODE_ARROWS ->
            process_stick_as_keys(w, x, y, 126, 125, 123, 124)
      [] mode = STICK_MODE_MOUSE -> process_stick_as_mouse(w, x, y)
      [] OTHER -> w

\* A variant of the flush that leaves the accumulator as it is.
FlushMouse_NoReset(w) ==
    IF w.st.mouse_dx # 0 \/ w.st.mouse_dy # 0
    THEN send_mouse_movement(w, w.st.mouse_dx, w.st.mouse_dy)
    ELSE w

\* Flush of the accumulated pointer motion.
FlushMouse(w) ==
    IF w.st.mouse_dx # 0 \/ w.st.mouse_dy # 0
    THEN [send_mouse_movement(w, w.st.mouse_dx, w.st.mouse_dy)
             EXCEPT !.st.mouse_dx = 0, !.st.mouse_dy = 0]
    ELSE w

\* The left stick's switch
LeftStick(w, x, y) ==
    LET s == config.sticks
    IN  StickDispatch(w, s.left_stick_mode, x, y,
                      s.left_up, s.left_down, s.left_left, s.left_right)

\* The right stick's switch
RightStick(w, x, y) ==
    LET s == config.sticks
    IN  StickDispatch(w, s.right_stick_mode, x, y,
                      s.left_up, s.left_down, s.left_left, s.left_right)

\* process_sticks after the two calls of apply_deadzone, which gave l and r
SticksAfterDeadzone(w, l, r) ==
    The({[w3 EXCEPT !.st.prev_left_stick_x = l[1], !.st.prev_left_stick_y = l[2],
                    !.st.prev_right_stick_x = r[1], !.st.prev_right_stick_y = r[2]] :
            w3 \in {FlushMouse(w2) :
                w2 \in {RightStick(w1, r[1], r[2]) :
                    w1 \in {LeftStick(w, l[1], l[2])}}}})

process_sticks(w, left_x, left_y, right_x, right_y) ==
    The({SticksAfterDeadzone(w, l, r) :
            l \in {apply_deadzone(left_x, left_y, config.sticks.deadzone)},
            r \in {apply_deadzone(right_x, right_y, config.sticks.deadzone)}})

(***************************************************************************)
(* What the device can deliver.                                            *)
(***************************************************************************)
\* Button bitmasks of the frames: every combination of the first
\* NumButtons buttons, and D-pad Right (the last slot) alone.
RECURSIVE MaskOf(_)
MaskOf(S) == IF S = {} THEN 0
             ELSE LET i == CHOOSE j \in S : TRUE
                  IN  XBOX_BTN(i) + MaskOf(S \ {i})

ButtonInputs == {MaskOf(S) : S \in SUBSET (1..NumButtons)}
                    \cup {XBOX_BTN(NumButtonSlots)}

\* Wire bytes <<left_trigger, right_trigger>>: around the threshold, and the
\* pair of the swap scenario both ways.
TriggerInputs ==
    LET t == config.triggers.threshold
    IN  {<<t, t>>, <<t + 1, t>>, <<t, t + 1>>, <<t + 1, t + 1>>,
         <<200, 50>>, <<50, 200>>}

\* Wire values <<x, y>> of one stick: centre, inside the default deadzone,
\* between the deadzone and the digital threshold, full deflections on one
\* axis and on both, just inside a deadzone of 16000, beyond the unit circle.
StickVectors ==
    {<<0, 0>>, <<5000, 5000>>, <<9000, 0>>, <<20000, 0>>, <<0, -20000>>,
     <<-20000, 20000>>, <<15063, 5395>>, <<30000, -30000>>}

\* Wire values <<left_x, left_y, right_x, right_y>> of the frames: one stick
\* deflected at a time, or both the same way, or both in opposite ways; and
\* two vectors at the rim of the value range, one just outside the circle of
\* radius 32767 and one with the value -32768.
StickInputs ==
    {<<v[1], v[2], 0, 0>> : v \in StickVectors}
        \cup {<<0, 0, v[1], v[2]>> : v \in StickVectors}
        \cup {<<20000, 0, 20000, 0>>, <<0, 20000, 0, -20000>>}
        \cup {<<32767, 1, 0, 0>>, <<0, 0, -32768, -13>>}

\* The payload length a well-formed frame of `transferred' bytes declares
\* in its header: the bytes that follow the header.
DeclaredLength(transferred) ==
    IF transferred >= GipHeaderSize THEN transferred - GipHeaderSize ELSE 0

\* A read: result and transferred of libusb_interrupt_transfer, and the
\* bytes of the buffer as GipHeader / GipInputPacket fields.
Read(res, transferred, command, sequence, buttons, lt, rt, sticks) ==
    [result |-> res, transferred |-> transferred, command |-> command,
     sequence |-> sequence, length |-> DeclaredLength(transferred),
     buttons |-> buttons,
     left_trigger |-> lt, right_trigger |-> rt,
     left_stick_x |-> sticks[1], left_stick_y |-> sticks[2],
     right_stick_x |-> sticks[3], right_stick_y |-> sticks[4]]

NoData(res) == Read(res, 0, GIP_CMD_OTHER, 0, 0, 0, 0, <<0, 0, 0, 0>>)

\* A frame that presses A and pulls both triggers, cut to `transferred' bytes
PressingFrame(transferred, command) ==
    Read(LIBUSB_SUCCESS, transferred, command, 0, XBOX_BTN(1), 200, 200,
         <<20000, 0, 0, 20000>>)

\* Frames of the steady state: one group of controls moves at a time, the
\* others rest (triggers at the threshold, sticks centred); two frames move
\* everything at once.
RestTriggers == <<config.triggers.threshold, config.triggers.threshold>>

InputFrames ==
    {Read(LIBUSB_SUCCESS, GipInputPacketSize, GIP_CMD_INPUT, 0, b,
          RestTriggers[1], RestTriggers[2], <<0, 0, 0, 0>>) : b \in ButtonInputs}
      \cup {Read(LIBUSB_SUCCESS, GipInputPacketSize, GIP_CMD_INPUT, 0, 0,
                 t[1], t[2], <<0, 0, 0, 0>>) : t \in TriggerInputs}
      \cup {Read(LIBUSB_SUCCESS, GipInputPacketSize, GIP_CMD_INPUT, 0, 0,
                 RestTriggers[1], RestTriggers[2], s) : s \in StickInputs}
      \cup {PressingFrame(GipInputPacketSize, GIP_CMD_INPUT),
            Read(LIBUSB_SUCCESS, UsbBufferSize, GIP_CMD_INPUT, 0,
                 MaskOf(1..NumButtons), 200, 50, <<0, 20000, 0, -20000>>)}

DroppedFrames ==
    {PressingFrame(GipHeaderSize - 1, GIP_CMD_INPUT),
     PressingFrame(GipInputPacketSize - 1, GIP_CMD_INPUT),
     PressingFrame(UsbBufferSize, GIP_CMD_GUIDE_BUTTON),
     PressingFrame(UsbBufferSize, GIP_CMD_OTHER),
     PressingFrame(UsbBufferSize, GIP_CMD_ANNOUNCE)}

\* Frames whose header declares more payload than was received: an Input
\* frame of full size declaring a whole buffer, and one declaring one byte
\* too many.
OverdeclaredFrames ==
    {[PressingFrame(GipInputPacketSize, GIP_CMD_INPUT)
         EXCEPT !.length = UsbBufferSize - GipHeaderSize],
     [PressingFrame(UsbBufferSize, GIP_CMD_INPUT)
         EXCEPT !.length = UsbBufferSize - GipHeaderSize + 1]}

FailedReads ==
    {NoData(LIBUSB_ERROR_TIMEOUT), NoData(LIBUSB_ERROR_NO_DEVICE),
     NoData(LIBUSB_ERROR_IO)}

SteadyReads ==
    InputFrames \cup DroppedFrames \cup OverdeclaredFrames \cup FailedReads

\* Sequence numbers of the frames seen during the handshake
HandshakeSequences == {1, 2}

HandshakeReads ==
    {Read(LIBUSB_SUCCESS, UsbBufferSize, c, q, 0, 0, 0, <<0, 0, 0, 0>>) :
        c \in {GIP_CMD_ANNOUNCE, GIP_CMD_INPUT, GIP_CMD_OTHER},
        q \in HandshakeSequences}
      \cup {Read(LIBUSB_SUCCESS, GipHeaderSize - 1, GIP_CMD_ANNOUNCE, 1, 0, 0, 0,
                 <<0, 0, 0, 0>>)}
      \cup FailedReads

(***************************************************************************)
(* USB transfers of a step, as logged in usb                               *)
(***************************************************************************)
ReadTransfer(rd) ==
    [op |-> "read", result |-> rd.result, transferred |-> rd.transferred,
     command |-> rd.command, sequence |-> rd.sequence]

WriteTransfer(command, sequence, res) ==
    [op |-> "write", result |-> res, transferred |-> 0,
     command |-> command, sequence |-> sequence]

\* A variant of send_ack that does not echo the sequence number.
send_ack_NoEcho(sequence, res) == WriteTransfer(GIP_CMD_ACKNOWLEDGE, 0, res)

\* send_ack: the transfer it makes
send_ack(sequence, res) == WriteTransfer(GIP_CMD_ACKNOWLEDGE, sequence, res)

\* result == 0 && transferred >= sizeof(GipHeader)
HasHeader(rd) == rd.result = LIBUSB_SUCCESS /\ rd.transferred >= GipHeaderSize

(***************************************************************************)
(* Last event per key and pointer button                                   *)
(***************************************************************************)
Target(e) == <<e.kind, e.code>>

RECURSIVE PressedAfter(_, _)
PressedAfter(S, events) ==
    IF events = <<>> THEN S
    ELSE LET e == Head(events)
         IN  PressedAfter(IF e.kind = "move" THEN S
                          ELSE IF e.pressed THEN S \cup {Target(e)}
                          ELSE S \ {Target(e)}, Tail(events))

\* Before any frame
NoFrame == NoData("none")

\* The handshake's record before its first transfer
NoHandshake ==
    [reads |-> 0, acks |-> 0, write_failed |-> FALSE, timed_out |-> FALSE]

\* Before any read of input_loop, and between two reads
NoStep ==
    [accepted |-> FALSE, st |-> InitialInputState, last |-> NoFrame,
     frame |-> NoFrame]

Deliver(events) ==
    /\ emitted' = events
    /\ last_pressed' = PressedAfter(last_pressed, events)

(***************************************************************************)
(* Steps                                                                   *)
(***************************************************************************)
Init ==
    /\ config \in Configs
    /\ running = TRUE
    /\ input_state = InitialInputState
    /\ pc = "handshake"
    /\ attempt = 0
    /\ result = "none"
    /\ usb = <<>>
    /\ emitted = <<>>
    /\ last_pressed = {}
    /\ last_frame = NoFrame
    /\ step = NoStep
    /\ hs_read_failed = FALSE
    /\ hs = NoHandshake
    /\ init_return = <<>>
    /\ power_writes = 0
    /\ exit_cause = "none"

\* signal_handler, on SIGINT or SIGTERM
signal_handler ==
    /\ pc # "done"
    /\ running = TRUE
    /\ running' = FALSE
    /\ UNCHANGED <<config, input_state, pc, attempt, result, usb, emitted,
                   last_pressed, last_frame, step, hs_read_failed, hs,
                   init_return, power_writes, exit_cause>>

\* A variant of the iteration that writes the power-on frame after the read.
HandshakeTransfers_PowerEarly(rd, wr) ==
    <<ReadTransfer(rd), WriteTransfer(GIP_CMD_POWER, 0, wr)>>

\* The transfers of one iteration of the handshake loop, for a read rd and
\* the result wr of the write that may follow it.
HandshakeTransfers(rd, wr) ==
    IF HasHeader(rd) /\ rd.command = GIP_CMD_ANNOUNCE
    THEN <<ReadTransfer(rd), send_ack(rd.sequence, wr)>>
    ELSE <<ReadTransfer(rd)>>

\* A variant of the loop that no read result leaves.
HandshakeBreaks_Never(rd) == FALSE

\* Whether the iteration leaves the loop by break.
HandshakeBreaks(rd) == ~HasHeader(rd) /\ rd.result = LIBUSB_ERROR_TIMEOUT

\* A variant of the loop whose counter does not advance.
AttemptAfter_Stuck(rd) == attempt

\* The loop counter after the iteration: attempt++ unless the loop is left.
AttemptAfter(rd) == IF HandshakeBreaks(rd) THEN attempt ELSE attempt + 1

\* A tally of transfers counts up to one past the iterations the loop allows.
Tally(n) == IF n > MaxAttempts THEN MaxAttempts + 1 ELSE n

\* The transfers of kind op and command in a step's transfers
TransfersOf(transfers, op, command) ==
    {i \in DOMAIN transfers :
        transfers[i].op = op /\ transfers[i].command = command}

\* Whether a write of a step's transfers failed
WriteFailed(transfers) ==
    \E i \in DOMAIN transfers :
        transfers[i].op = "write" /\ transfers[i].result # LIBUSB_SUCCESS

\* The handshake's record after a step that made the given transfers
HandshakeAfter(transfers) ==
    [reads |-> Tally(hs.reads + Cardinality({i \in DOMAIN transfers :
                                               transfers[i].op = "read"})),
     acks |-> Tally(hs.acks + Cardinality(TransfersOf(transfers, "write",
                                                      GIP_CMD_ACKNOWLEDGE))),
     write_failed |-> (hs.write_failed \/ WriteFailed(transfers)),
     timed_out |-> (hs.timed_out
                      \/ \E i \in DOMAIN transfers :
                            /\ transfers[i].op = "read"
                            /\ transfers[i].result = LIBUSB_ERROR_TIMEOUT)]

\* initialize_controller: one iteration of the loop over attempt
HandshakeAttempt ==
    /\ pc = "handshake"
    /\ attempt < MaxAttempts
    /\ \E rd \in HandshakeReads, wr \in UsbWriteResults :
          /\ usb' = HandshakeTransfers(rd, wr)
          /\ result' = rd.result
          /\ hs_read_failed' =
                (hs_read_failed
                   \/ rd.result \notin {LIBUSB_SUCCESS, LIBUSB_ERROR_TIMEOUT})
          /\ attempt' = AttemptAfter(rd)
          /\ pc' = IF HandshakeBreaks(rd) \/ attempt + 1 >= MaxAttempts
                   THEN "power_on" ELSE "handshake"
    /\ hs' = HandshakeAfter(usb')
    /\ power_writes' = power_writes
                          + Cardinality(TransfersOf(usb', "write", GIP_CMD_POWER))
    /\ emitted' = <<>>
    /\ UNCHANGED <<config, running, input_state, last_pressed, last_frame,
                   step, init_return, exit_cause>>

\* initialize_controller: power-on write, settle delay, return 0
PowerOn ==
    /\ pc = "power_on"
    /\ \E wr \in UsbWriteResults :
          usb' = <<WriteTransfer(GIP_CMD_POWER, 0, wr)>>
    /\ hs' = HandshakeAfter(usb')
    /\ power_writes' = power_writes
                          + Cardinality(TransfersOf(usb', "write", GIP_CMD_POWER))
    /\ init_return' = <<0>>
    /\ pc' = "loop"
    /\ attempt' = 0
    /\ result' = "none"
    /\ emitted' = <<>>
    /\ UNCHANGED <<config, running, input_state, last_pressed, last_frame,
                   step, hs_read_failed, exit_cause>>

\* A variant of the loop condition that never sees the flag.
WhileRunning_Always == TRUE

\* input_loop: the condition of while (running)
WhileRunning == running

\* input_loop: while (running)
LoopHead ==
    /\ pc = "loop"
    /\ IF WhileRunning
       THEN pc' = "read" /\ UNCHANGED exit_cause
       ELSE pc' = "release" /\ exit_cause' = "cancel"
    /\ usb' = <<>>
    /\ emitted' = <<>>
    /\ result' = "none"
    /\ step' = NoStep
    /\ hs' = NoHandshake
    /\ UNCHANGED <<config, running, input_state, attempt, last_pressed,
                   last_frame, hs_read_failed, init_return, power_writes>>

\* A variant of the test that takes every read for an Input frame.
AcceptsInput_Always(rd) == TRUE

\* A variant of the test that does not look at the length of an Input frame.
AcceptsInput_AnyLength(rd) == HasHeader(rd) /\ rd.command = GIP_CMD_INPUT

\* header->command == GIP_CMD_INPUT && transferred >= sizeof(GipInputPacket)
AcceptsInput(rd) ==
    /\ HasHeader(rd)
    /\ rd.command = GIP_CMD_INPUT
    /\ rd.transferred >= GipInputPacketSize

\* The three process_* calls on an accepted Input frame
ProcessInput(w, rd) ==
    The({process_sticks(w2, rd.left_stick_x, rd.left_stick_y,
                        rd.right_stick_x, rd.right_stick_y) :
            w2 \in {process_triggers(w1, rd.left_trigger, rd.right_trigger) :
                w1 \in {process_buttons(w, rd.buttons)}}})

\* Whether a read makes input_loop break.
LoopBreaks(rd) == ~HasHeader(rd) /\ rd.result = LIBUSB_ERROR_NO_DEVICE

\* input_loop: one iteration of the loop body, for the read rd
ReadAndProcess(rd) ==
    /\ pc = "read"
    /\ usb' = <<ReadTransfer(rd)>>
    /\ result' = rd.result
    /\ step' = [accepted |-> AcceptsInput(rd), st |-> input_state,
                last |-> last_frame, frame |-> rd]
    /\ last_frame' = IF AcceptsInput(rd) THEN rd ELSE last_frame
    /\ IF LoopBreaks(rd)
       THEN pc' = "release" /\ exit_cause' = "device"
       ELSE pc' = "loop" /\ UNCHANGED exit_cause
    /\ \E w \in {IF AcceptsInput(rd)
                  THEN ProcessInput([st |-> input_state, out |-> <<>>], rd)
                  ELSE [st |-> input_state, out |-> <<>>]} :
          /\ input_state' = w.st
          /\ Deliver(w.out)
    /\ UNCHANGED <<config, running, attempt, hs_read_failed, hs, init_return,
                   power_writes>>

\* input_loop: one read and what follows it
LoopRead == \E rd \in SteadyReads : ReadAndProcess(rd)

\* main: for (i = 0; i < 256; i++) if (keys[i]) send_key_event(i, false)
\* (the loop is followed from one held keycode to the next)
RECURSIVE ReleaseKeys(_, _)
ReleaseKeys(w, i) ==
    LET held == {k \in w.st.keys : i <= k /\ k < KeyTableSize}
    IN  IF held = {} THEN w
        ELSE The({ReleaseKeys(send_key_event(w, k, FALSE), k + 1) :
                     k \in {j \in held : \A h \in held : j <= h}})

\* A variant of the cleanup that presses the left pointer button.
ReleaseLeftButton_Pressed(w) ==
    IF w.st.mouse_left
    THEN send_mouse_button_event(w, kCGMouseButtonLeft, TRUE) ELSE w

\* main: the releases of the pointer buttons
ReleaseLeftButton(w) ==
    IF w.st.mouse_left
    THEN send_mouse_button_event(w, kCGMouseButtonLeft, FALSE) ELSE w

\* A variant of the cleanup that forgets the right pointer button.
ReleaseRightButton_Skipped(w) == w

ReleaseRightButton(w) ==
    IF w.st.mouse_right
    THEN send_mouse_button_event(w, kCGMouseButtonRight, FALSE) ELSE w

ReleaseButtons(w) ==
    The({ReleaseRightButton(w1) : w1 \in {ReleaseLeftButton(w)}})

\* main: cleanup after input_loop has returned
ReleasePass ==
    /\ pc = "release"
    /\ \E w \in {ReleaseButtons(ReleaseKeys([st |-> input_state, out |-> <<>>], 0))} :
          Deliver(w.out)
    /\ pc' = "done"
    /\ usb' = <<>>
    /\ result' = "none"
    /\ UNCHANGED <<config, running, input_state, attempt, last_frame, step,
                   hs_read_failed, hs, init_return, power_writes, exit_cause>>

Next ==
    \/ signal_handler
    \/ HandshakeAttempt
    \/ PowerOn
    \/ LoopHead
    \/ LoopRead
    \/ ReleasePass

Spec == Init /\ [][Next]_vars

\* The program's own steps are always taken in the end: every transfer is
\* bounded by its timeout (2000, 1000 and 10 ms) and nothing else blocks, so
\* the read of input_loop returns, at the latest as a timeout.  The signal
\* is the environment's and may never come.
FairSpec ==
    /\ Spec
    /\ WF_vars(HandshakeAttempt)
    /\ WF_vars(PowerOn)
    /\ WF_vars(LoopHead)
    /\ WF_vars(ReadAndProcess(NoData(LIBUSB_ERROR_TIMEOUT)))
    /\ WF_vars(ReleasePass)

(***************************************************************************)
(* Properties                                                              *)
(***************************************************************************)
\* The working state a read of input_loop starts from
StepBefore == [st |-> step.st, out |-> <<>>]

\* How many times the event e occurs in events
CountEvents(events, e) == Cardinality({i \in DOMAIN events : events[i] = e})

\* How many of the pointer buttons' hold flags are set
HeldButtons(st) ==
    (IF st.mouse_left THEN 1 ELSE 0) + (IF st.mouse_right THEN 1 ELSE 0)
        + (IF st.mouse_middle THEN 1 ELSE 0)

\* events occurs in emitted as a block
EmittedHas(events) ==
    \E o \in 0..(Len(emitted) - Len(events)) :
        SubSeq(emitted, o + 1, o + Len(events)) = events

\* C1: once input_loop has returned, by cancellation or because the device
\* is lost, the cleanup of main emits exactly one release for every keycode
\* held in the table and for every pointer button whose hold flag is set,
\* and no other event.
C1_ShutdownReleasesEachHeldOnce ==
    pc = "done" =>
        /\ \A k \in 0..(KeyTableSize - 1) :
              CountEvents(emitted, KeyEvent(k, FALSE))
                  = IF k \in input_state.keys THEN 1 ELSE 0
        /\ CountEvents(emitted, MouseButtonEvent(kCGMouseButtonLeft, FALSE))
              = IF input_state.mouse_left THEN 1 ELSE 0
        /\ CountEvents(emitted, MouseButtonEvent(kCGMouseButtonRight, FALSE))
              = IF input_state.mouse_right THEN 1 ELSE 0
        /\ CountEvents(emitted, MouseButtonEvent(kCGMouseButtonCenter, FALSE))
              = IF input_state.mouse_middle THEN 1 ELSE 0
        /\ Len(emitted) = Cardinality(input_state.keys) + HeldButtons(input_state)
        /\ exit_cause \in {"cancel", "device"}

\* The device is lost with three keycodes and a pointer button held.
C1_Witness ==
    /\ pc = "done"
    /\ exit_cause = "device"
    /\ Cardinality(input_state.keys) >= 3
    /\ input_state.mouse_right
    /\ Len(emitted) >= 4

\* C2: after the cleanup of main no keycode and no pointer button has a
\* press as its last event at the sink.
C2_NothingLeftPressed == pc = "done" => last_pressed = {}

\* A cancellation with a key and a pointer button held, both released by
\* the cleanup.
C2_Witness ==
    /\ pc = "done"
    /\ exit_cause = "cancel"
    /\ input_state.keys # {}
    /\ input_state.mouse_left
    /\ last_pressed = {}

\* The buttons whose bit differs between two bitmasks
ChangedButtons(prev, curr) ==
    {i \in 1..NumButtonSlots :
        TestMask(prev, XBOX_BTN(i)) # TestMask(curr, XBOX_BTN(i))}

\* C3: when an accepted frame's bitmask differs from prev_buttons in exactly
\* one of the 14 button bits, process_buttons emits exactly one key event,
\* with the keycode configured for that button and the new value of the bit
\* as its pressed flag, whatever the hold table says about that keycode.
C3_OneBitOneTransition ==
    (step.accepted
       /\ Cardinality(ChangedButtons(step.st.prev_buttons, step.frame.buttons)) = 1)
    => LET i == CHOOSE j \in ChangedButtons(step.st.prev_buttons,
                                            step.frame.buttons) : TRUE
           out == process_buttons(StepBefore, step.frame.buttons).out
       IN  /\ out = <<KeyEvent(button_map[i].keycode,
                               TestMask(step.frame.buttons, XBOX_BTN(i)))>>
           /\ SubSeq(emitted, 1, 1) = out

\* B goes down while A is held and both are configured with one keycode:
\* the keycode is already in the hold table and a press is emitted.
C3_Witness ==
    /\ step.accepted
    /\ config.buttons.key_a = config.buttons.key_b
    /\ step.st.prev_buttons = XBOX_BTN(1)
    /\ step.frame.buttons = XBOX_BTN(1) + XBOX_BTN(2)
    /\ config.buttons.key_b \in step.st.keys
    /\ emitted # <<>>
    /\ emitted[1] = KeyEvent(config.buttons.key_b, TRUE)

\* C4: when input_loop processes the same Input frame twice in a row, the
\* second processing emits no key event and no pointer-button event.
C4_SameFrameTwiceEmitsNothing ==
    (step.accepted /\ step.frame = step.last)
    => \A i \in DOMAIN emitted : emitted[i].kind = "move"

\* The event a trigger's crossing gives in each mode
TriggerOutput(mode, button, keycode, pressed) ==
    IF mode = TRIGGER_MODE_MOUSE THEN <<MouseButtonEvent(button, pressed)>>
    ELSE IF mode = TRIGGER_MODE_KEY THEN <<KeyEvent(keycode, pressed)>>
    ELSE <<>>

\* C5: a trigger is pressed exactly when its value is greater than the
\* threshold; process_triggers emits an event for an enabled trigger
\* exactly when that predicate differs between the remembered value and the
\* frame's, with the new predicate as pressed flag: a value equal to the
\* threshold presses nothing, threshold + 1 presses.
C5_ThresholdIsStrict ==
    step.accepted =>
        LET t == config.triggers
            right_now == step.frame.left_trigger > t.threshold
            right_was == step.st.prev_right_trigger > t.threshold
            left_now == step.frame.right_trigger > t.threshold
            left_was == step.st.prev_left_trigger > t.threshold
            right_emits == right_now # right_was
                             /\ t.right_trigger_mode # TRIGGER_MODE_DISABLED
            left_emits == left_now # left_was
                            /\ t.left_trigger_mode # TRIGGER_MODE_DISABLED
            out == process_triggers(StepBefore, step.frame.left_trigger,
                                    step.frame.right_trigger).out
        IN  /\ Len(out) = (IF right_emits THEN 1 ELSE 0)
                            + (IF left_emits THEN 1 ELSE 0)
            /\ right_emits => out[1].pressed = right_now
            /\ left_emits => out[Len(out)].pressed = left_now
            /\ EmittedHas(out)

\* The right trigger goes from the threshold to threshold + 1 and presses,
\* while the left one stays at the threshold and emits nothing.
C5_Witness ==
    /\ step.accepted
    /\ config.triggers.right_trigger_mode # TRIGGER_MODE_DISABLED
    /\ step.st.prev_right_trigger = config.triggers.threshold
    /\ step.st.prev_left_trigger = config.triggers.threshold
    /\ step.frame.left_trigger = config.triggers.threshold + 1
    /\ step.frame.right_trigger = config.triggers.threshold
    /\ Len(emitted) = 1
    /\ emitted[1].pressed

\* C6: the wire's left_trigger byte drives the right trigger and is what
\* prev_right_trigger remembers, the wire's right_trigger byte drives the
\* left trigger; with 200 and 50 on the wire, a threshold of 127, both
\* triggers released before and the right trigger enabled, process_triggers
\* emits exactly one event, the press of the right trigger's output.
C6_TriggersAreSwapped ==
    step.accepted =>
        LET t == config.triggers
            out == process_triggers(StepBefore, step.frame.left_trigger,
                                    step.frame.right_trigger).out
        IN  /\ input_state.prev_right_trigger = step.frame.left_trigger
            /\ input_state.prev_left_trigger = step.frame.right_trigger
            /\ (/\ step.frame.left_trigger = 200
                /\ step.frame.right_trigger = 50
                /\ t.threshold = 127
                /\ step.st.prev_left_trigger <= 127
                /\ step.st.prev_right_trigger <= 127
                /\ t.right_trigger_mode # TRIGGER_MODE_DISABLED)
               => /\ out = TriggerOutput(t.right_trigger_mode, kCGMouseButtonRight,
                                         t.right_trigger_key, TRUE)
                  /\ Len(out) = 1
                  /\ EmittedHas(out)

\* The frame with 200 and 50 arrives with both triggers released and both
\* in mouse mode: the right pointer button is pressed, the left is not.
C6_Witness ==
    /\ step.accepted
    /\ step.frame.left_trigger = 200
    /\ step.frame.right_trigger = 50
    /\ config.triggers.threshold = 127
    /\ step.st.prev_left_trigger <= 127
    /\ step.st.prev_right_trigger <= 127
    /\ config.triggers.right_trigger_mode = TRIGGER_MODE_MOUSE
    /\ config.triggers.left_trigger_mode = TRIGGER_MODE_MOUSE
    /\ input_state.mouse_right
    /\ ~input_state.mouse_left
    /\ emitted = <<MouseButtonEvent(kCGMouseButtonRight, TRUE)>>

\* What a crossing of a trigger in the given mode does to the state w0
TriggerExpected(w0, mode, button, keycode, pressed) ==
    IF mode = TRIGGER_MODE_MOUSE
    THEN [st |-> IF button = kCGMouseButtonRight
                 THEN [w0.st EXCEPT !.mouse_right = pressed]
                 ELSE [w0.st EXCEPT !.mouse_left = pressed],
          out |-> <<MouseButtonEvent(button, pressed)>>]
    ELSE IF mode = TRIGGER_MODE_KEY
    THEN [st |-> [w0.st EXCEPT !.keys = IF pressed THEN @ \cup {keycode}
                                        ELSE @ \ {keycode}],
          out |-> <<KeyEvent(keycode, pressed)>>]
    ELSE w0

\* C7: on a crossing of the threshold, a trigger in mouse mode emits a
\* pointer-button event (left trigger: left button, right trigger: right
\* button) and sets that button's hold flag; in key mode it emits a key event
\* with its configured keycode and updates the hold table; in disabled mode
\* it emits nothing and changes no hold flag.  Without a crossing nothing
\* is emitted or changed.
C7_TriggerModeDispatch ==
    step.accepted =>
        LET t == config.triggers
            right_now == TriggerPressed(step.frame.left_trigger)
            left_now == TriggerPressed(step.frame.right_trigger)
        IN  /\ RightTriggerStep(StepBefore, step.frame.left_trigger)
                 = IF right_now # TriggerPressed(step.st.prev_right_trigger)
                   THEN TriggerExpected(StepBefore, t.right_trigger_mode,
                                        kCGMouseButtonRight, t.right_trigger_key,
                                        right_now)
                   ELSE StepBefore
            /\ LeftTriggerStep(StepBefore, step.frame.right_trigger)
                 = IF left_now # TriggerPressed(step.st.prev_left_trigger)
                   THEN TriggerExpected(StepBefore, t.left_trigger_mode,
                                        kCGMouseButtonLeft, t.left_trigger_key,
                                        left_now)
                   ELSE StepBefore
            /\ EmittedHas(process_triggers(StepBefore, step.frame.left_trigger,
                                           step.frame.right_trigger).out)

\* The right trigger in key mode crosses upwards next to a disabled left
\* trigger that crosses too: one key event, the keycode enters the table.
C7_Witness ==
    /\ step.accepted
    /\ config.triggers.right_trigger_mode = TRIGGER_MODE_KEY
    /\ config.triggers.left_trigger_mode = TRIGGER_MODE_DISABLED
    /\ ~TriggerPressed(step.st.prev_left_trigger)
    /\ ~TriggerPressed(step.st.prev_right_trigger)
    /\ TriggerPressed(step.frame.right_trigger)
    /\ TriggerPressed(step.frame.left_trigger)
    /\ config.triggers.right_trigger_key \in input_state.keys
    /\ emitted = <<KeyEvent(config.triggers.right_trigger_key, TRUE)>>

\* The exact comparison of a vector's Euclidean magnitude with the deadzone
InsideDeadzone(x, y) ==
    x * x + y * y < config.sticks.deadzone * config.sticks.deadzone

\* The keycodes a stick in the given digital mode drives
StickKeys(mode) ==
    IF mode = STICK_MODE_WASD
    THEN {config.sticks.left_up, config.sticks.left_down,
          config.sticks.left_left, config.sticks.left_right}
    ELSE IF mode = STICK_MODE_ARROWS THEN {126, 125, 123, 124}
    ELSE {}

\* What the claim of C8 asks of a stick's switch, run from the state w0 to
\* the state w1: no direction key of the stick is pressed or left held, and
\* nothing is added to the pointer-delta accumulator.
StickIsAtRest(mode, w0, w1) ==
    /\ w1.st.keys \cap StickKeys(mode) = {}
    /\ \A i \in DOMAIN w1.out : ~w1.out[i].pressed
    /\ w1.st.mouse_dx = w0.st.mouse_dx
    /\ w1.st.mouse_dy = w0.st.mouse_dy

\* C8: for a stick vector whose Euclidean magnitude is below the deadzone,
\* the stick in a digital mode has its four directions false (its held
\* direction keys are released, none is pressed) and in pointer mode adds
\* (0,0) to the pointer-delta accumulator.
C8_InsideDeadzoneIsAtRest ==
    step.accepted =>
        LET f == step.frame
            l == apply_deadzone(f.left_stick_x, f.left_stick_y,
                                config.sticks.deadzone)
            r == apply_deadzone(f.right_stick_x, f.right_stick_y,
                                config.sticks.deadzone)
        IN  /\ InsideDeadzone(f.left_stick_x, f.left_stick_y)
                 => StickIsAtRest(config.sticks.left_stick_mode, StepBefore,
                                  LeftStick(StepBefore, l[1], l[2]))
            /\ InsideDeadzone(f.right_stick_x, f.right_stick_y)
                 => StickIsAtRest(config.sticks.right_stick_mode, StepBefore,
                                  RightStick(StepBefore, r[1], r[2]))

\* C9: in the handshake loop, a read that delivers at least a full header
\* with the command Announce is followed, within the same iteration and so
\* before the next read, by exactly one Acknowledge write that carries the
\* frame's sequence number; any other read is followed by no write.
C9_AnnounceIsAcknowledged ==
    (pc \in {"handshake", "power_on"} /\ usb # <<>>) =>
        /\ usb[1].op = "read"
        /\ IF /\ usb[1].result = LIBUSB_SUCCESS
              /\ usb[1].transferred >= GipHeaderSize
              /\ usb[1].command = GIP_CMD_ANNOUNCE
           THEN /\ Len(usb) = 2
                /\ usb[2].op = "write"
                /\ usb[2].command = GIP_CMD_ACKNOWLEDGE
                /\ usb[2].sequence = usb[1].sequence
           ELSE Len(usb) = 1

\* A second Announce, with sequence number 2, has been acknowledged with 2.
C9_Witness ==
    /\ pc = "handshake"
    /\ attempt = 2
    /\ Len(usb) = 2
    /\ usb[1].command = GIP_CMD_ANNOUNCE
    /\ usb[1].sequence = 2
    /\ usb[2].command = GIP_CMD_ACKNOWLEDGE
    /\ usb[2].sequence = 2

\* C10: once a read of the handshake has failed with an error other than
\* timeout, the handshake is over with that read as its last one, no
\* power-on follows and input_loop is not entered.
C10_HandshakeErrorAborts ==
    hs_read_failed =>
        /\ pc \notin {"power_on", "loop", "read", "release", "done"}
        /\ result \notin {LIBUSB_SUCCESS, LIBUSB_ERROR_TIMEOUT}

\* C11: in input_loop, a read that fails with any error other than timeout
\* ends the loop: no further read follows and the cleanup of main runs.
C11_ReadErrorEndsLoop ==
    (pc \in {"loop", "read", "release", "done"}
       /\ step.frame.result \notin {"none", LIBUSB_SUCCESS, LIBUSB_ERROR_TIMEOUT})
    => pc \in {"release", "done"}

\* C12: once signal_handler has cleared running, the loop head begins no
\* new read (only a read already past the loop head is completed), and the
\* loop is left and the cleanup of main is run in the end.
C12_CancellationSeenAtLoopHead ==
    /\ [][(~running /\ pc = "loop") => pc' \in {"loop", "release"}]_vars
    /\ (~running) ~> (pc = "done")

\* The flag was set while a read was in flight; that read has delivered an
\* accepted frame and the loop has then been left for the cleanup.
C12_Witness ==
    /\ ~running
    /\ pc = "release"
    /\ exit_cause = "cancel"
    /\ last_frame # NoFrame
    /\ input_state.keys # {}

\* The keycodes and pointer buttons the hold state counts as pressed
HeldTargets(st) ==
    {<<"key", k>> : k \in st.keys}
        \cup (IF st.mouse_left THEN {<<"button", kCGMouseButtonLeft>>} ELSE {})
        \cup (IF st.mouse_right THEN {<<"button", kCGMouseButtonRight>>} ELSE {})
        \cup (IF st.mouse_middle THEN {<<"button", kCGMouseButtonCenter>>} ELSE {})

\* Whether events, delivered when the targets of S have a press as their
\* last event, press only targets that are not pressed and release only
\* targets that are.
RECURSIVE Alternates(_, _)
Alternates(S, events) ==
    IF events = <<>> THEN TRUE
    ELSE LET e == Head(events)
         IN  IF e.kind = "move" THEN Alternates(S, Tail(events))
             ELSE IF e.pressed
             THEN Target(e) \notin S /\ Alternates(S \cup {Target(e)}, Tail(events))
             ELSE Target(e) \in S /\ Alternates(S \ {Target(e)}, Tail(events))

\* C13: the events the sink receives for one keycode, and for one pointer
\* button, alternate press, release, press, ... starting with a press: no
\* step delivers a press of a target whose last event is a press, or a
\* release of a target whose last event is not a press.
C13_EventsAlternate ==
    /\ last_pressed = HeldTargets(input_state)
    /\ step.frame.result # "none" => Alternates(HeldTargets(step.st), emitted)

\* The working state with which process_sticks is entered in the last step
BeforeSticks ==
    The({[st |-> w.st, out |-> <<>>] :
            w \in {process_triggers(w1, step.frame.left_trigger,
                                    step.frame.right_trigger) :
                       w1 \in {process_buttons(StepBefore, step.frame.buttons)}}})

\* The events of the left stick's switch in the last step
LeftStickEvents ==
    The({LeftStick(BeforeSticks, l[1], l[2]).out :
            l \in {apply_deadzone(step.frame.left_stick_x, step.frame.left_stick_y,
                                  config.sticks.deadzone)}})

\* The events of the right stick's switch in the last step
RightStickEvents ==
    The({RightStick([st |-> w1.st, out |-> <<>>], r[1], r[2]).out :
            w1 \in {LeftStick(BeforeSticks, l[1], l[2]) :
                       l \in {apply_deadzone(step.frame.left_stick_x,
                                             step.frame.left_stick_y,
                                             config.sticks.deadzone)}},
            r \in {apply_deadzone(step.frame.right_stick_x, step.frame.right_stick_y,
                                  config.sticks.deadzone)}})

\* The keycodes of the events in events
CodesOf(events) == {events[i].code : i \in DOMAIN events}

\* C14: a stick in STICK_MODE_WASD emits its transitions on its own
\* configured direction keycodes: the left stick on left_up, left_down,
\* left_left, left_right and the right stick on right_up, right_down,
\* right_left, right_right.
C14_SticksUseTheirOwnKeys ==
    step.accepted =>
        /\ config.sticks.left_stick_mode = STICK_MODE_WASD =>
              CodesOf(LeftStickEvents)
                  \subseteq {config.sticks.left_up, config.sticks.left_down,
                             config.sticks.left_left, config.sticks.left_right}
        /\ config.sticks.right_stick_mode = STICK_MODE_WASD =>
              /\ CodesOf(RightStickEvents)
                    \subseteq {config.sticks.right_up, config.sticks.right_down,
                               config.sticks.right_left, config.sticks.right_right}
              /\ EmittedHas(RightStickEvents)

\* The j-th smallest element of the set of numbers S
NthOf(S, j) == CHOOSE i \in S : Cardinality({k \in S : k <= i}) = j

\* C15: in one accepted frame the button transitions are emitted in the
\* order of button_map (A, B, X, Y, LB, RB, LS, RS, View, Menu, D-pad Up,
\* Down, Left, Right): the events of the frame begin with one key event per
\* changed button bit, the button earlier in the table first, whatever the
\* keycodes are.
C15_ButtonsInTableOrder ==
    step.accepted =>
        LET C == ChangedButtons(step.st.prev_buttons, step.frame.buttons)
            map == button_map
        IN  /\ Len(emitted) >= Cardinality(C)
            /\ \A j \in 1..Cardinality(C) :
                  emitted[j] = KeyEvent(map[NthOf(C, j)].keycode,
                                        TestMask(step.frame.buttons,
                                                 XBOX_BTN(NthOf(C, j))))

\* A and B are released and D-pad Right is pressed by one frame: three
\* transitions, whose keycodes 49, 8, 124 are not in ascending order.
C15_Witness ==
    /\ step.accepted
    /\ config = MappingTable(1)
    /\ ChangedButtons(step.st.prev_buttons, step.frame.buttons) = {1, 2, 14}
    /\ SubSeq(emitted, 1, 3)
          = <<KeyEvent(49, FALSE), KeyEvent(8, FALSE), KeyEvent(124, TRUE)>>

\* C16: initialize_controller always terminates: whatever its reads return
\* (frame, short frame, timeout, other error) and whether its writes succeed
\* or fail, it makes at most 5 reads and at most 5 Acknowledge writes, and
\* in the end the power-on frame is written and input_loop is entered.
C16_HandshakeTerminates ==
    /\ [](hs.reads <= MaxAttempts /\ hs.acks <= MaxAttempts)
    /\ <>(/\ pc = "loop"
          /\ init_return = <<0>>
          /\ TransfersOf(usb, "write", GIP_CMD_POWER) # {})

\* The longest handshake: five Announce frames, each acknowledged, with a
\* failed write among them, and then the power-on frame.
C16_Witness ==
    /\ pc = "loop"
    /\ hs.reads = MaxAttempts
    /\ hs.acks = MaxAttempts
    /\ hs.write_failed
    /\ hs_read_failed = FALSE
    /\ TransfersOf(usb, "write", GIP_CMD_POWER) # {}

\* Whether transfers is the power-on write alone
IsPowerOnWrite(transfers) ==
    /\ Len(transfers) = 1
    /\ transfers[1].op = "write"
    /\ transfers[1].command = GIP_CMD_POWER

\* C17: in initialize_controller the first read that times out ends the
\* read phase: the timed-out read is followed by no Acknowledge and by no
\* further read of the handshake, and the next transfer is the power-on
\* write, whether or not an Announce was received before the timeout.
C17_TimeoutEndsReadPhase ==
    /\ []((hs.timed_out /\ pc \in {"handshake", "power_on"})
            => /\ pc = "power_on"
               /\ usb = <<ReadTransfer(NoData(LIBUSB_ERROR_TIMEOUT))>>)
    /\ [][(hs.timed_out /\ pc \in {"handshake", "power_on"})
            => (usb' = usb \/ (IsPowerOnWrite(usb') /\ pc' = "loop"))]_vars

\* An Announce was received and acknowledged, then a read timed out.
C17_Witness ==
    /\ pc = "power_on"
    /\ hs.timed_out
    /\ hs.acks >= 1
    /\ hs.reads >= 2
    /\ result = LIBUSB_ERROR_TIMEOUT

\* initialize_controller has just returned to main
HandshakeReturned ==
    pc = "loop" /\ init_return # <<>> /\ IsPowerOnWrite(usb)

\* C18: a failed Acknowledge write or a failed power-on write is reported
\* to the caller of initialize_controller: its return value is 0 when
\* every write succeeded and another value when a write failed, and
\* input_loop is entered in both cases.
C18_WriteFailureIsReported ==
    HandshakeReturned => (init_return = <<0>> <=> ~hs.write_failed)

\* main is in initialize_controller
InHandshake == pc \in {"handshake", "power_on"}

\* Whether a step's transfers hold a write
HasWrite(transfers) == \E i \in DOMAIN transfers : transfers[i].op = "write"

\* C19: the power-on frame is written exactly once per run, after every
\* Acknowledge write and after the last read of the handshake; input_loop
\* makes no read before the power-on write and the settle delay are over;
\* and once input_loop is entered the handshake is never re-entered: no
\* Acknowledge and no power-on write is made during input_loop or after it.
C19_HandshakeOrdering ==
    /\ [](/\ power_writes = IF InHandshake THEN 0 ELSE 1
          /\ InHandshake =>
                /\ step = NoStep /\ last_frame = NoFrame
                /\ \A i \in DOMAIN usb :
                      \/ usb[i].op = "read"
                      \/ usb[i].command = GIP_CMD_ACKNOWLEDGE
          /\ (~InHandshake /\ HasWrite(usb)) =>
                /\ IsPowerOnWrite(usb)
                /\ pc = "loop" /\ step = NoStep /\ last_frame = NoFrame)
    /\ [][~InHandshake => (~InHandshake' /\ (HasWrite(usb') => usb' = usb))]_vars

\* After a handshake that has returned, input_loop has read and accepted a
\* frame.
C19_Witness ==
    /\ pc = "loop"
    /\ power_writes = 1
    /\ init_return = <<0>>
    /\ step.accepted
    /\ usb = <<ReadTransfer(step.frame)>>
    /\ emitted # <<>>

\* The last read of input_loop has timed out
ReadTimedOut == step.frame.result = LIBUSB_ERROR_TIMEOUT

\* C20: a read of input_loop that times out emits no event and leaves the
\* whole of input_state as it was (previous buttons, triggers and sticks,
\* hold table, pointer-button flags, accumulator); the loop then goes on to
\* its next read.
C20_TimeoutChangesNothing ==
    /\ [](ReadTimedOut =>
            /\ ~step.accepted
            /\ emitted = <<>>
            /\ input_state = step.st
            /\ last_frame = step.last
            /\ pc = "loop")
    /\ [][(ReadTimedOut /\ running /\ pc' # pc) => pc' = "read"]_vars

\* The read timed out while keys and a pointer button were held.
C20_Witness ==
    /\ ReadTimedOut
    /\ pc = "loop"
    /\ input_state.keys # {}
    /\ input_state.mouse_left \/ input_state.mouse_right
    /\ input_state.prev_buttons # 0
    /\ input_state.prev_left_stick_x # 0

\* A frame with the Input command and the whole Input payload
IsFullInput(f) ==
    /\ f.result = LIBUSB_SUCCESS
    /\ f.command = GIP_CMD_INPUT
    /\ f.transferred >= GipInputPacketSize

\* A frame that was received but is not a whole Input frame: shorter than
\* the header, an Input frame shorter than its payload, or another command
IsDroppedFrame(f) ==
    /\ f.result = LIBUSB_SUCCESS
    /\ \/ f.transferred < GipHeaderSize
       \/ f.command # GIP_CMD_INPUT
       \/ f.transferred < GipInputPacketSize

\* C21: in input_loop a frame shorter than the header, an Input frame
\* shorter than the Input payload and a frame with any other command are
\* dropped: nothing is emitted, input_state is unchanged and the loop goes
\* on; input_state changes only by a read that delivers a whole Input frame.
C21_OtherFramesAreDropped ==
    /\ [](IsDroppedFrame(step.frame) =>
            /\ ~step.accepted
            /\ emitted = <<>>
            /\ input_state = step.st
            /\ pc = "loop")
    /\ [][input_state' # input_state =>
            (step'.accepted /\ IsFullInput(step'.frame))]_vars

\* An Input frame one byte short, whose buttons differ from the previous
\* ones, was read while keys were held.
C21_Witness ==
    /\ step.frame.result = LIBUSB_SUCCESS
    /\ step.frame.command = GIP_CMD_INPUT
    /\ step.frame.transferred = GipInputPacketSize - 1
    /\ step.frame.buttons # step.st.prev_buttons
    /\ input_state.keys # {}
    /\ pc = "loop"

\* The header of a received frame declares more payload than the bytes
\* that follow the header in what was received
DeclaresTooMuch(f) ==
    /\ f.result = LIBUSB_SUCCESS
    /\ f.transferred >= GipHeaderSize
    /\ f.length > f.transferred - GipHeaderSize

\* C22: a received frame whose header declares a payload longer than the
\* bytes remaining in the buffer is rejected: it is not processed as an
\* Input frame and no event is emitted for it, whatever its command and
\* its transferred length.
C22_OverdeclaredLengthIsRejected ==
    DeclaresTooMuch(step.frame) =>
        /\ ~step.accepted
        /\ emitted = <<>>
        /\ input_state = step.st

\* What a stick in the given mode adds to the accumulator for the vector v
\* that apply_deadzone left: <<dx, dy>>
PointerContribution(mode, v) ==
    IF mode = STICK_MODE_MOUSE
    THEN <<CurvedDelta(v[2]), CurvedDelta(-v[1])>>
    ELSE <<0, 0>>

\* The sum of the contributions of both sticks for the last frame
PointerSum ==
    The({<<a[1] + b[1], a[2] + b[2]>> :
            a \in {PointerContribution(
                       config.sticks.left_stick_mode,
                       apply_deadzone(step.frame.left_stick_x,
                                      step.frame.left_stick_y,
                                      config.sticks.deadzone))},
            b \in {PointerContribution(
                       config.sticks.right_stick_mode,
                       apply_deadzone(step.frame.right_stick_x,
                                      step.frame.right_stick_y,
                                      config.sticks.deadzone))}})

\* The pointer-motion events among the events of the last step
MotionEvents == {i \in DOMAIN emitted : emitted[i].kind = "move"}

\* C23: for one accepted Input frame at most one pointer-motion event is
\* emitted; it is emitted exactly when the accumulated (dx, dy), the sum of
\* the contributions of every stick in pointer mode, is not (0, 0), and it
\* carries that sum; after every frame the accumulator is (0, 0), so that
\* no motion is carried over to the next frame.
C23_OneFlushPerFrame ==
    /\ input_state.mouse_dx = 0
    /\ input_state.mouse_dy = 0
    /\ ~step.accepted => MotionEvents = {}
    /\ step.accepted =>
          \E sum \in {PointerSum} :
             /\ Cardinality(MotionEvents) <= 1
             /\ MotionEvents # {} <=> sum # <<0, 0>>
             /\ \A i \in MotionEvents :
                   emitted[i] = MouseMoveEvent(sum[1], sum[2])

\* Both sticks are in pointer mode and pushed the same way: one event
\* carries the sum of the two contributions.
C23_Witness ==
    /\ step.accepted
    /\ config.sticks.left_stick_mode = STICK_MODE_MOUSE
    /\ config.sticks.right_stick_mode = STICK_MODE_MOUSE
    /\ step.frame.left_stick_x = 20000
    /\ step.frame.right_stick_x = 20000
    /\ Cardinality(MotionEvents) = 1
    /\ \A i \in MotionEvents :
          emitted[i] = MouseMoveEvent(0, 2 * CurvedDelta(-20000))

\* The vectors apply_deadzone left of the last frame's sticks
LeftVector ==
    apply_deadzone(step.frame.left_stick_x, step.frame.left_stick_y,
                   config.sticks.deadzone)
RightVector ==
    apply_deadzone(step.frame.right_stick_x, step.frame.right_stick_y,
                   config.sticks.deadzone)

\* The keycodes <<up, down, left, right>> that process_sticks hands to
\* process_stick_as_keys for a stick in the given digital mode
DirectionKeys(mode) ==
    IF mode = STICK_MODE_ARROWS THEN <<126, 125, 123, 124>>
    ELSE <<config.sticks.left_up, config.sticks.left_down,
           config.sticks.left_left, config.sticks.left_right>>

\* The booleans <<up, down, left, right>> of a vector <<wire x, wire y>>
\* with the activation threshold 0.3 of the full scale
Directions(v) ==
    <<10 * v[1] > 3 * AxisMax, 10 * v[1] < -(3 * AxisMax),
      10 * v[2] < -(3 * AxisMax), 10 * v[2] > 3 * AxisMax>>

\* The transition of direction d, if its boolean differs from the hold
\* state held of its keycode
DirectionTransition(keys, dirs, held, d) ==
    IF dirs[d] # (keys[d] \in held) THEN <<KeyEvent(keys[d], dirs[d])>> ELSE <<>>

\* What C24 asks of one stick in a digital mode whose four direction
\* keycodes are distinct: run on the vector v from the hold table held, its
\* events are `out' and it leaves the hold table heldAfter.
DigitalStickOk(mode, v, held, out, heldAfter) ==
    \E keys \in {DirectionKeys(mode)}, dirs \in {Directions(v)} :
       /\ ~(dirs[1] /\ dirs[2])
       /\ ~(dirs[3] /\ dirs[4])
       /\ out = DirectionTransition(keys, dirs, held, 1)
                  \o DirectionTransition(keys, dirs, held, 2)
                  \o DirectionTransition(keys, dirs, held, 3)
                  \o DirectionTransition(keys, dirs, held, 4)
       /\ \A d \in 1..4 : (keys[d] \in heldAfter) <=> dirs[d]

IsDigital(mode) == mode \in {STICK_MODE_WASD, STICK_MODE_ARROWS}

\* C24: a stick in a digital mode decides its four directions
\* independently with the threshold 0.3 (diagonals occur, up and down are
\* never both true, nor left and right); a transition is emitted for a
\* direction exactly when its boolean differs from the hold state of its
\* keycode; and with four distinct direction keycodes the hold state of
\* each equals its boolean afterwards.
C24_DigitalStickDirections ==
    (step.accepted /\ (IsDigital(config.sticks.left_stick_mode)
                         \/ IsDigital(config.sticks.right_stick_mode))) =>
        \E w0 \in {BeforeSticks}, l \in {LeftVector}, r \in {RightVector} :
          \E w1 \in {LeftStick(w0, l[1], l[2])} :
            \E w2 \in {RightStick([st |-> w1.st, out |-> <<>>], r[1], r[2])} :
              /\ IsDigital(config.sticks.left_stick_mode) =>
                    DigitalStickOk(config.sticks.left_stick_mode, l,
                                   w0.st.keys, w1.out, w1.st.keys)
              /\ IsDigital(config.sticks.right_stick_mode) =>
                    /\ DigitalStickOk(config.sticks.right_stick_mode, r,
                                      w1.st.keys, w2.out, w2.st.keys)
                    /\ EmittedHas(w2.out)
              /\ EmittedHas(w1.out \o w2.out)

\* The left stick goes from up to the diagonal down-right: up is released,
\* down and right are pressed, left stays released.
C24_Witness ==
    /\ step.accepted
    /\ config.sticks.left_stick_mode = STICK_MODE_WASD
    /\ config.sticks.left_up \in step.st.keys
    /\ LeftVector = <<-20000, 20000>>
    /\ EmittedHas(<<KeyEvent(config.sticks.left_up, FALSE),
                    KeyEvent(config.sticks.left_down, TRUE),
                    KeyEvent(config.sticks.left_right, TRUE)>>)

Sign(n) == IF n > 0 THEN 1 ELSE IF n < 0 THEN -1 ELSE 0

\* The keycodes pressed by the events of out
PressedCodes(out) == {out[i].code : i \in {j \in DOMAIN out : out[j].pressed}}

\* What the axis swap asks of one stick whose wire fields are x and y and
\* whose vector after apply_deadzone is v, run in the given mode from the
\* state w0 to the state w1 with the events of w1.out: wire X drives
\* up/down and dy (inverted), wire Y drives left/right and dx.
StickAxesOk(mode, x, y, v, w0, w1) ==
    /\ IsDigital(mode) =>
          \E keys \in {DirectionKeys(mode)} :
             \A k \in PressedCodes(w1.out) \cup (w1.st.keys \cap StickKeys(mode)) :
                /\ k = keys[1] => x > 0
                /\ k = keys[2] => x < 0
                /\ k = keys[3] => y < 0
                /\ k = keys[4] => y > 0
    /\ mode = STICK_MODE_MOUSE =>
          /\ Sign(w1.st.mouse_dx - w0.st.mouse_dx) = Sign(v[2])
          /\ Sign(w1.st.mouse_dy - w0.st.mouse_dy) = -Sign(v[1])
          /\ (y = 0) => w1.st.mouse_dx = w0.st.mouse_dx
          /\ (x = 0) => w1.st.mouse_dy = w0.st.mouse_dy

\* The events of out on the keycodes keys[a] and keys[b]
EventsOn(out, keys, a, b) ==
    {i \in DOMAIN out : out[i].kind = "key" /\ out[i].code \in {keys[a], keys[b]}}

\* The reading of C25 in which no event at all, neither press nor release,
\* is emitted on the keys of the axis that is not deflected.
StickAxesSilent(mode, x, y, out) ==
    IsDigital(mode) =>
        \E keys \in {DirectionKeys(mode)} :
           /\ (x # 0 /\ y = 0) => EventsOn(out, keys, 3, 4) = {}
           /\ (y # 0 /\ x = 0) => EventsOn(out, keys, 1, 2) = {}

\* C25: for both sticks, in digital and in pointer mode, the wire's X field
\* decides the vertical output (up/down keys, dy with inverted sign) and
\* the wire's Y field the horizontal output (left/right keys, dx with the
\* same sign): a direction key is pressed or left held only with its wire
\* field deflected its way, so a deflection only in wire X presses no
\* left/right key and adds no dx, and a deflection only in wire Y presses
\* no up/down key and adds no dy.
C25_AxisSwap ==
    step.accepted =>
        \E w0 \in {BeforeSticks}, l \in {LeftVector}, r \in {RightVector} :
          \E w1 \in {LeftStick(w0, l[1], l[2])} :
            \E w2 \in {RightStick([st |-> w1.st, out |-> <<>>], r[1], r[2])} :
              /\ StickAxesOk(config.sticks.left_stick_mode,
                             step.frame.left_stick_x, step.frame.left_stick_y,
                             l, w0, w1)
              /\ StickAxesOk(config.sticks.right_stick_mode,
                             step.frame.right_stick_x, step.frame.right_stick_y,
                             r, w1, w2)
              /\ EmittedHas(w1.out \o w2.out)

\* C25 as stated: moreover a deflection only in wire X produces no
\* left/right transition at all, and a deflection only in wire Y no up/down
\* transition at all.
C25_NoTransitionOnOtherAxis ==
    step.accepted =>
        \E w0 \in {BeforeSticks}, l \in {LeftVector}, r \in {RightVector} :
          \E w1 \in {LeftStick(w0, l[1], l[2])} :
            \E w2 \in {RightStick([st |-> w1.st, out |-> <<>>], r[1], r[2])} :
              /\ StickAxesSilent(config.sticks.left_stick_mode,
                                 step.frame.left_stick_x, step.frame.left_stick_y,
                                 w1.out)
              /\ StickAxesSilent(config.sticks.right_stick_mode,
                                 step.frame.right_stick_x, step.frame.right_stick_y,
                                 w2.out)

\* Both sticks are deflected in wire X only: the left one, in WASD mode,
\* presses up; the right one, in pointer mode, moves the pointer up.
C25_Witness ==
    /\ step.accepted
    /\ config.sticks.left_stick_mode = STICK_MODE_WASD
    /\ config.sticks.right_stick_mode = STICK_MODE_MOUSE
    /\ step.frame.left_stick_x = 20000 /\ step.frame.left_stick_y = 0
    /\ step.frame.right_stick_x = 20000 /\ step.frame.right_stick_y = 0
    /\ emitted = <<KeyEvent(config.sticks.left_up, TRUE),
                   MouseMoveEvent(0, CurvedDelta(-20000))>>

\* The square of the Euclidean magnitude of <<x, y>>
SquaredMagnitude(x, y) == x * x + y * y

\* What C26 asks of apply_deadzone for the wire values <<x, y>> and the
\* values <<ox, oy>> it leaves
ClampOk(x, y, ox, oy) ==
    /\ ox \in -AxisMax..AxisMax
    /\ oy \in -AxisMax..AxisMax
    /\ Sign(ox) \in {0, Sign(x)}
    /\ Sign(oy) \in {0, Sign(y)}
    /\ SquaredMagnitude(x, y) > AxisMax * AxisMax
          => SquaredMagnitude(ox, oy) <= AxisMax * AxisMax
    /\ (/\ SquaredMagnitude(x, y) >= config.sticks.deadzone * config.sticks.deadzone
        /\ SquaredMagnitude(x, y) <= AxisMax * AxisMax)
          => (ox = x /\ oy = y)

\* C26: for every pair of 16-bit stick values, -32768 included, after
\* apply_deadzone each axis lies in -32767..32767 and keeps its sign or is
\* zero, a vector whose magnitude exceeded 32767 has a magnitude of at most
\* 32767, and a vector whose magnitude lies between the deadzone and 32767
\* is unchanged.  (process_sticks stores the values apply_deadzone left in
\* prev_left_stick_x ... prev_right_stick_y.)
C26_DeadzoneClamp ==
    step.accepted =>
        /\ ClampOk(step.frame.left_stick_x, step.frame.left_stick_y,
                   input_state.prev_left_stick_x, input_state.prev_left_stick_y)
        /\ ClampOk(step.frame.right_stick_x, step.frame.right_stick_y,
                   input_state.prev_right_stick_x, input_state.prev_right_stick_y)

\* The hold state agrees with the last event of every keycode and pointer
\* button, and mouse_middle is not set
HoldTableMatches ==
    /\ last_pressed = HeldTargets(input_state)
    /\ ~input_state.mouse_middle

\* C27: in every state up to the cleanup of main, keys[k] is the pressed
\* flag of the last key event emitted for k (false if there was none),
\* mouse_left and mouse_right are the pressed flags of the last events of
\* their pointer buttons, and mouse_middle is false; the cleanup emits its
\* releases and leaves the hold state as it was.
C27_HoldTableMatchesLastEvent ==
    /\ pc # "done" => HoldTableMatches
    /\ pc = "done" =>
          /\ last_pressed = {}
          /\ ~input_state.mouse_middle
          /\ Len(emitted) = Cardinality(HeldTargets(input_state))

\* C27 as stated: the hold state agrees with the last events in every
\* reachable state, the state after the cleanup of main included.
C27_HoldTableAlways == HoldTableMatches

\* A frame has released one key while other keys and a pointer button are
\* held.
C27_Witness ==
    /\ step.accepted
    /\ \E i \in DOMAIN emitted : emitted[i].kind = "key" /\ ~emitted[i].pressed
    /\ input_state.keys # {}
    /\ input_state.mouse_left \/ input_state.mouse_right
    /\ last_pressed = HeldTargets(input_state)

\* input_loop has returned
LoopEnded == pc \in {"release", "done"}

\* Every event of events is the release of a key or of a pointer button
OnlyReleases(events) ==
    \A i \in DOMAIN events : events[i].kind # "move" /\ ~events[i].pressed

\* C28: no key, pointer-button or pointer-motion event is emitted before
\* initialize_controller has returned, and once input_loop has returned
\* the only events emitted are the releases of the cleanup of main: no
\* press and no pointer motion follows the end of the loop.
C28_EventWindow ==
    /\ []((InHandshake \/ HandshakeReturned)
            => (emitted = <<>> /\ last_pressed = {}))
    /\ [](pc = "release" => emitted = <<>>)
    /\ [](pc = "done" => OnlyReleases(emitted))
    /\ [][LoopEnded =>
            (emitted' = emitted \/ (pc = "release" /\ pc' = "done"))]_vars

\* The loop was cancelled with several keys or buttons held, and the
\* cleanup has released them.
C28_Witness ==
    /\ pc = "done"
    /\ ~running
    /\ exit_cause = "cancel"
    /\ Len(emitted) >= 2
    /\ input_state.mouse_left

====
